---- MODULE Spec2Model ----
(***************************************************************************)
(* Model of the pokemon aggregation service (src/src/main.rs) and of its   *)
(* two upstream clients (src/src/poke_api/client.rs and                    *)
(* src/src/funtranslations_api/client.rs).                                 *)
(*                                                                         *)
(* Conventions.  A Rust String holding data is a sequence of characters    *)
(* (one-character TLA+ strings); identifiers that are only compared        *)
(* (habitat, dialect, error codes) are TLA+ strings.  Option<T> is a       *)
(* sequence of length 0 (None) or 1 (Some).  A JSON document is modelled   *)
(* by what the typed accessors of serde_json::Value return on it: a field  *)
(* that is absent or of the wrong type yields None.                        *)
(***************************************************************************)
EXTENDS Integers, Sequences, FiniteSets, TLC

VARIABLES pc, route, reqName, calls, net, pokeReply, pokeResult,
          pokemon_info, funReply, funResult, response, errIn, errOut

vars == <<pc, route, reqName, calls, net, pokeReply, pokeResult,
          pokemon_info, funReply, funResult, response, errIn, errOut>>

----------------------------------------------------------------------------
(* Bounds and input alphabets *)

MaxEntries == 2
MaxMsgLen == 3

None == <<>>
Some(x) == <<x>>
Option(S) == {None} \cup {Some(x) : x \in S}

LF == "\n"
FF == "\f"
SP == " "

RECURSIVE SeqsUpTo(_, _)
SeqsUpTo(S, n) ==
    IF n = 0 THEN {<<>>}
    ELSE LET shorter == SeqsUpTo(S, n - 1)
         IN  shorter \cup {Append(s, x) : s \in {t \in shorter : Len(t) = n - 1}, x \in S}

PathNames == {<<"m","e","w">>, <<"x">>}
SpeciesNames == {<<"m","e","w">>}
Habitats == {"cave", "rare"}
Languages == {"en", "fr"}
FlavorTexts == {<<"a">>, <<LF, FF, LF>>}
TranslatedTexts == {<<"b">>, <<"b", LF, "b">>}
Dialects == {"yoda", "shakespeare"}
Statuses == {200, 400, 404, 500}
MsgChars == {"a", "b", SP}
Messages == SeqsUpTo(MsgChars, MaxMsgLen)

NetModes == {"responsive", "silent"}

Entries == [lang : Option(Languages), flavor_text : Option(FlavorTexts)]

SpeciesDocs ==
    [name : Option(SpeciesNames),
     flavor_text_entries : Option(SeqsUpTo(Entries, MaxEntries)),
     habitat : Option(Habitats),
     is_legendary : Option(BOOLEAN)]

TranslationDocs ==
    [total : Option({0, 1, 2}),
     translated : Option(TranslatedTexts),
     text : Option(FlavorTexts),
     translation : Option(Dialects)]

MalformedJson == [valid |-> FALSE]
JsonOf(doc) == [valid |-> TRUE, doc |-> doc]

SpeciesBodies == {MalformedJson} \cup {JsonOf(d) : d \in SpeciesDocs}
TranslationBodies == {MalformedJson} \cup {JsonOf(d) : d \in TranslationDocs}

----------------------------------------------------------------------------
(* Result<T, E> and the client error enums *)

Ok(v) == [kind |-> "ok", val |-> v]
Err(e) == [kind |-> "err", err |-> e]
Panic == [kind |-> "panic"]

NotFound == [variant |-> "NotFound"]
InternalError == [variant |-> "InternalError"]
BadRequest(message) == [variant |-> "BadRequest", message |-> message]

ClientErrors == {NotFound, InternalError} \cup {BadRequest(m) : m \in Messages}

(* reqwest::Error: status() is Some only for errors made by               *)
(* error_for_status(), which neither client calls.                        *)
ReqwestError(status) == [status |-> status]
TransportError == ReqwestError(None)

----------------------------------------------------------------------------
(* src/src/poke_api/client.rs *)

PokeApiClient_new(base_url) == [base_url |-> base_url, timeout |-> None]

(* mutant: only the first occurrence is replaced *)
Replace_First(s, from, to) ==
    [i \in 1..Len(s) |->
       IF s[i] = from /\ (\A j \in 1..(i - 1) : s[j] # from) THEN to ELSE s[i]]

Replace(s, from, to) ==
    [i \in 1..Len(s) |-> IF s[i] = from THEN to ELSE s[i]]

RECURSIVE FindEn(_, _)
FindEn(entries, i) ==
    IF i > Len(entries) THEN Ok(None)
    ELSE IF entries[i].lang = None THEN Panic
    ELSE IF entries[i].lang[1] = "en" THEN Ok(Some(i))
    ELSE FindEn(entries, i + 1)

PokeFromSerdeError == InternalError

PokeFromReqwestError(error) == InternalError

build_pokemon_info(json) ==
    IF ~json.valid THEN Err(PokeFromSerdeError)
    ELSE
      LET parsed == json.doc
          name == parsed.name
          array == parsed.flavor_text_entries
      IN  IF array = None THEN Panic
          ELSE
            LET found == FindEn(array[1], 1)
            IN  IF found.kind = "panic" \/ found.val = None THEN Panic
                ELSE
                  LET description == array[1][found.val[1]].flavor_text
                      habitat == parsed.habitat
                      is_legendary == parsed.is_legendary
                  IN  IF /\ name # None
                         /\ description # None
                         /\ habitat # None
                         /\ is_legendary # None
                      THEN Ok([name |-> name[1],
                               description |-> Replace(description[1], LF, SP),
                               habitat |-> habitat[1],
                               is_legendary |-> is_legendary[1]])
                      ELSE Err(InternalError)

PokeUrl(client, name) == <<client.base_url, "pokemon-species", name>>

(* get_pokemon_info after send() has returned a response *)
PokeOnResponse(reply) ==
    IF reply.status = 200
    THEN IF reply.text = None
         THEN Err(PokeFromReqwestError(TransportError))
         ELSE build_pokemon_info(reply.text[1])
    ELSE IF reply.status = 404 THEN Err(NotFound)
    ELSE Err(InternalError)

----------------------------------------------------------------------------
(* src/src/funtranslations_api/client.rs *)

FunTranslationsApiClient_new(base_url, timeout) ==
    [base_url |-> base_url, timeout |-> Some(timeout)]

FunFromSerdeError == InternalError

FunFromReqwestError(error) ==
    IF error.status = Some(404) THEN NotFound ELSE InternalError

(* mutant: success.total of 0 is accepted *)
build_translation_ZeroTotal(json) ==
    IF ~json.valid THEN Err(FunFromSerdeError)
    ELSE
      LET parsed == json.doc
          total == parsed.total
      IN  IF total # None
          THEN IF total[1] >= 0
               THEN LET translated == parsed.translated
                        text == parsed.text
                        translation == parsed.translation
                    IN  IF translated # None /\ text # None /\ translation # None
                        THEN Ok([dialect |-> translation[1],
                                 original |-> text[1],
                                 translated |-> translated[1]])
                        ELSE Err(InternalError)
               ELSE Err(InternalError)
          ELSE Err(InternalError)

build_translation(json) ==
    IF ~json.valid THEN Err(FunFromSerdeError)
    ELSE
      LET parsed == json.doc
          total == parsed.total
      IN  IF total # None
          THEN IF total[1] > 0
               THEN LET translated == parsed.translated
                        text == parsed.text
                        translation == parsed.translation
                    IN  IF translated # None /\ text # None /\ translation # None
                        THEN Ok([dialect |-> translation[1],
                                 original |-> text[1],
                                 translated |-> translated[1]])
                        ELSE Err(InternalError)
               ELSE Err(InternalError)
          ELSE Err(InternalError)

FunUrl(client, dialect, text) ==
    <<client.base_url, "translate", dialect, text>>

(* mutant: every status other than 200 is an InternalError *)
FunOnResponse_No404(reply) ==
    IF reply.status = 200
    THEN IF reply.text = None
         THEN Err(FunFromReqwestError(TransportError))
         ELSE build_translation(reply.text[1])
    ELSE Err(InternalError)

(* translate after send() has returned a response *)
FunOnResponse(reply) ==
    IF reply.status = 200
    THEN IF reply.text = None
         THEN Err(FunFromReqwestError(TransportError))
         ELSE build_translation(reply.text[1])
    ELSE IF reply.status = 404 THEN Err(NotFound)
    ELSE Err(InternalError)

----------------------------------------------------------------------------
(* src/src/main.rs *)

TimeoutSecs == 10

MsgInternalError ==
    <<"i","n","t","e","r","n","a","l"," ","e","r","r","o","r">>
MsgPokemonNotFound ==
    <<"p","o","k","e","m","o","n"," ","n","o","t"," ","f","o","u","n","d">>
MsgNotFound == <<"n","o","t"," ","f","o","u","n","d">>

PokeErrorFromPoke(error) ==
    IF error.variant = "BadRequest"
    THEN [status_code |-> 400, code |-> "PE_BAD_REQUEST", message |-> error.message]
    ELSE IF error.variant = "InternalError"
    THEN [status_code |-> 500, code |-> "PE_INTERNAL", message |-> MsgInternalError]
    ELSE [status_code |-> 404, code |-> "PE_NOT_FOUND", message |-> MsgPokemonNotFound]

(* mutant: the species client's NotFound message is reused *)
PokeErrorFromFun_Copied(error) ==
    IF error.variant = "BadRequest"
    THEN [status_code |-> 400, code |-> "PE_BAD_REQUEST", message |-> error.message]
    ELSE IF error.variant = "NotFound"
    THEN [status_code |-> 404, code |-> "PE_NOT_FOUND", message |-> MsgPokemonNotFound]
    ELSE [status_code |-> 500, code |-> "PE_INTERNAL", message |-> MsgInternalError]

PokeErrorFromFun(error) ==
    IF error.variant = "BadRequest"
    THEN [status_code |-> 400, code |-> "PE_BAD_REQUEST", message |-> error.message]
    ELSE IF error.variant = "NotFound"
    THEN [status_code |-> 404, code |-> "PE_NOT_FOUND", message |-> MsgNotFound]
    ELSE [status_code |-> 500, code |-> "PE_INTERNAL", message |-> MsgInternalError]

(* ResponseError::error_response: status_code is not serialized *)
error_response(e) ==
    [status |-> e.status_code,
     body |-> [kind |-> "error", code |-> e.code, message |-> e.message]]

OkJson(info) == [status |-> 200, body |-> [kind |-> "info", info |-> info]]

poke_api_client == PokeApiClient_new("https://pokeapi.co/api/v2")
funtranslations_api_client ==
    FunTranslationsApiClient_new("https://api.funtranslations.com", TimeoutSecs)

(* mutant: both traits required instead of either *)
SelectDialect_And(info) ==
    IF info.habitat = "cave" /\ info.is_legendary THEN "yoda" ELSE "shakespeare"

SelectDialect(info) ==
    IF info.habitat = "cave" \/ info.is_legendary THEN "yoda" ELSE "shakespeare"

PokeCall(name) == [client |-> "poke", url |-> PokeUrl(poke_api_client, name)]
FunCall(dialect, text) ==
    [client |-> "fun", url |-> FunUrl(funtranslations_api_client, dialect, text)]

(* mutant: the echoed input text is stored instead of the translated text *)
Merge_Original(info, translation) ==
    [info EXCEPT !.description = translation.original]

Merge(info, translation) ==
    [info EXCEPT !.description = translation.translated]

(* mutant: the translation call is issued twice *)
IssueTranslate_Twice(log, info) ==
    Append(Append(log, FunCall(SelectDialect(info), info.description)),
           FunCall(SelectDialect(info), info.description))

(* the one translation call of get_pokemon_info_translated *)
IssueTranslate(log, info) ==
    Append(log, FunCall(SelectDialect(info), info.description))

(* mutant: a failed translation falls back to the untranslated info *)
TranslatedResponse_Fallback(info, result) ==
    IF result.kind = "err"
    THEN OkJson(info)
    ELSE OkJson(Merge(info, result.val))

(* what get_pokemon_info_translated returns once translate() has returned *)
TranslatedResponse(info, result) ==
    IF result.kind = "err"
    THEN error_response(PokeErrorFromFun(result.err))
    ELSE OkJson(Merge(info, result.val))

(* Both handlers from the return of get_pokemon_info(..).await onwards.   *)
(* A panic unwinds the handler: no response is produced.                  *)
AfterPokeResult(result, pokeNet) ==
    /\ pokeResult' = Some(result)
    /\ IF result.kind = "panic"
       THEN /\ pc' = "panicked"
            /\ net' = [net EXCEPT !.poke = pokeNet]
            /\ UNCHANGED <<pokemon_info, calls, response>>
       ELSE IF result.kind = "err"
       THEN /\ pc' = "done"
            /\ response' = Some(error_response(PokeErrorFromPoke(result.err)))
            /\ net' = [net EXCEPT !.poke = pokeNet]
            /\ UNCHANGED <<pokemon_info, calls>>
       ELSE IF route = "info"
       THEN /\ pc' = "done"
            /\ pokemon_info' = Some(result.val)
            /\ response' = Some(OkJson(result.val))
            /\ net' = [net EXCEPT !.poke = pokeNet]
            /\ UNCHANGED calls
       ELSE /\ pc' = "fun_wait"
            /\ pokemon_info' = Some(result.val)
            /\ calls' = IssueTranslate(calls, result.val)
            /\ \E m \in NetModes : net' = [net EXCEPT !.poke = pokeNet, !.fun = m]
            /\ UNCHANGED response

(* get_pokemon_info_translated from the return of translate(..).await *)
AfterFunResult(result, funNet) ==
    /\ funResult' = Some(result)
    /\ net' = [net EXCEPT !.fun = funNet]
    /\ pc' = "done"
    /\ response' = Some(TranslatedResponse(pokemon_info[1], result))
    /\ pokemon_info' =
         IF result.kind = "ok"
         THEN Some(Merge(pokemon_info[1], result.val))
         ELSE pokemon_info

----------------------------------------------------------------------------
(* State machine of one request *)

Init ==
    /\ pc = "idle"
    /\ route = "none"
    /\ reqName = None
    /\ calls = <<>>
    /\ net = [poke |-> "unsent", fun |-> "unsent"]
    /\ pokeReply = None
    /\ pokeResult = None
    /\ pokemon_info = None
    /\ funReply = None
    /\ funResult = None
    /\ response = None
    /\ errIn = None
    /\ errOut = None

(* GET /pokemon/{name}, up to the first await *)
GetPokemonInfo ==
    /\ pc = "idle"
    /\ \E name \in PathNames :
         /\ reqName' = Some(name)
         /\ calls' = Append(calls, PokeCall(name))
    /\ route' = "info"
    /\ \E m \in NetModes : net' = [net EXCEPT !.poke = m]
    /\ pc' = "poke_wait"
    /\ UNCHANGED <<pokeReply, pokeResult, pokemon_info, funReply, funResult,
                   response, errIn, errOut>>

(* GET /pokemon/translated/{name}, up to the first await *)
GetPokemonInfoTranslated ==
    /\ pc = "idle"
    /\ \E name \in PathNames :
         /\ reqName' = Some(name)
         /\ calls' = Append(calls, PokeCall(name))
    /\ route' = "translated"
    /\ \E m \in NetModes : net' = [net EXCEPT !.poke = m]
    /\ pc' = "poke_wait"
    /\ UNCHANGED <<pokeReply, pokeResult, pokemon_info, funReply, funResult,
                   response, errIn, errOut>>

(* The species upstream answers: status, and for 200 the body read by     *)
(* response.text() (None: reading the body failed).                       *)
PokeResponse ==
    /\ pc = "poke_wait"
    /\ net.poke = "responsive"
    /\ \E status \in Statuses :
       \E text \in IF status = 200 THEN Option(SpeciesBodies) ELSE {None} :
         LET reply == [status |-> status, text |-> text]
         IN  /\ pokeReply' = Some(reply)
             /\ AfterPokeResult(PokeOnResponse(reply), "replied")
    /\ UNCHANGED <<route, reqName, funReply, funResult, errIn, errOut>>

(* send() to the species upstream fails (connection error) *)
PokeSendError ==
    /\ pc = "poke_wait"
    /\ net.poke = "responsive"
    /\ AfterPokeResult(Err(PokeFromReqwestError(TransportError)), "failed")
    /\ UNCHANGED <<route, reqName, pokeReply, funReply, funResult, errIn, errOut>>

FunResponse ==
    /\ pc = "fun_wait"
    /\ net.fun = "responsive"
    /\ \E status \in Statuses :
       \E text \in IF status = 200 THEN Option(TranslationBodies) ELSE {None} :
         LET reply == [status |-> status, text |-> text]
         IN  /\ funReply' = Some(reply)
             /\ AfterFunResult(FunOnResponse(reply), "replied")
    /\ UNCHANGED <<route, reqName, calls, pokeReply, pokeResult, errIn, errOut>>

FunSendError ==
    /\ pc = "fun_wait"
    /\ net.fun = "responsive"
    /\ AfterFunResult(Err(FunFromReqwestError(TransportError)), "failed")
    /\ UNCHANGED <<route, reqName, calls, pokeReply, pokeResult, funReply,
                   errIn, errOut>>

(* The timeout of the http_client of the client whose call is in flight   *)
(* expires; a client built without a timeout has no such timer.           *)
ClientOf(c) == IF c = "poke" THEN poke_api_client ELSE funtranslations_api_client
WaitOf(c) == IF c = "poke" THEN "poke_wait" ELSE "fun_wait"

Timeout ==
    \E c \in {"poke", "fun"} :
      /\ pc = WaitOf(c)
      /\ ClientOf(c).timeout # None
      /\ IF c = "poke"
         THEN /\ AfterPokeResult(Err(PokeFromReqwestError(TransportError)), "timed_out")
              /\ UNCHANGED <<funResult>>
         ELSE /\ AfterFunResult(Err(FunFromReqwestError(TransportError)), "timed_out")
              /\ UNCHANGED <<calls, pokeResult>>
      /\ UNCHANGED <<route, reqName, pokeReply, funReply, errIn, errOut>>

Next ==
    \/ GetPokemonInfo
    \/ GetPokemonInfoTranslated
    \/ PokeResponse
    \/ PokeSendError
    \/ FunResponse
    \/ FunSendError
    \/ Timeout

Spec == Init /\ [][Next]_vars

(* The only step the program itself schedules is the timer of the http    *)
(* client; the upstreams are under no obligation to answer.               *)
SpecFair == Spec /\ WF_vars(Timeout)

----------------------------------------------------------------------------
(* The error translation as a function: every variant of both client      *)
(* error enums is converted (From) and rendered (error_response).         *)

ErrorInputs == {[client |-> c, error |-> e] : c \in {"poke", "fun"}, e \in ClientErrors}

InitErr ==
    /\ pc = "idle"
    /\ route = "none"
    /\ reqName = None
    /\ calls = <<>>
    /\ net = [poke |-> "unsent", fun |-> "unsent"]
    /\ pokeReply = None
    /\ pokeResult = None
    /\ pokemon_info = None
    /\ funReply = None
    /\ funResult = None
    /\ response = None
    /\ errIn \in {Some(i) : i \in ErrorInputs}
    /\ errOut = None

ConvertError ==
    /\ errIn # None
    /\ errOut = None
    /\ errOut' = Some(IF errIn[1].client = "poke"
                      THEN PokeErrorFromPoke(errIn[1].error)
                      ELSE PokeErrorFromFun(errIn[1].error))
    /\ UNCHANGED <<pc, route, reqName, calls, net, pokeReply, pokeResult,
                   pokemon_info, funReply, funResult, response, errIn>>

RespondError ==
    /\ errOut # None
    /\ response = None
    /\ response' = Some(error_response(errOut[1]))
    /\ pc' = "done"
    /\ UNCHANGED <<route, reqName, calls, net, pokeReply, pokeResult,
                   pokemon_info, funReply, funResult, errIn, errOut>>

NextErr == ConvertError \/ RespondError

SpecErr == InitErr /\ [][NextErr]_vars

----------------------------------------------------------------------------
(* Properties *)

Fetched == pokeResult[1].val
FetchOk == pokeResult # None /\ pokeResult[1].kind = "ok"
FetchFailed == pokeResult # None /\ pokeResult[1].kind # "ok"
Succeeded == response # None /\ response[1].status = 200
ErrorBody(code, message) == [kind |-> "error", code |-> code, message |-> message]

(* C1: the dialect of the translation call is "yoda" exactly when the     *)
(* fetched info has habitat "cave" or is legendary, and "shakespeare"     *)
(* otherwise.                                                             *)
C1_DialectRule ==
    \A i \in 1..Len(calls) :
      calls[i].client = "fun" =>
        /\ FetchOk
        /\ calls[i].url[3] = "yoda" <=>
             (Fetched.habitat = "cave" \/ Fetched.is_legendary = TRUE)
        /\ calls[i].url[3] = "shakespeare" <=>
             ~(Fetched.habitat = "cave" \/ Fetched.is_legendary = TRUE)

C1_Witness ==
    /\ Len(calls) = 2
    /\ calls[2].url[3] = "yoda"
    /\ Fetched.habitat = "rare"
    /\ Fetched.is_legendary

(* C2: getInfo issues exactly one species call and no translation call;   *)
(* getTranslatedInfo issues one species call first and then at most one   *)
(* translation call, issued only after the species fetch succeeded.       *)
C2_TwoHopOrder ==
    /\ pc # "idle" => Len(calls) >= 1 /\ calls[1].client = "poke"
    /\ route = "info" => Len(calls) = 1
    /\ route = "translated" =>
         /\ Len(calls) \in {1, 2}
         /\ Len(calls) = 2 => calls[2].client = "fun" /\ FetchOk
    /\ FetchFailed => Len(calls) = 1
    /\ pokeResult = None => Len(calls) <= 1

C2_Witness ==
    /\ route = "translated"
    /\ pc = "done"
    /\ Len(calls) = 2
    /\ calls[1].client = "poke"
    /\ calls[2].client = "fun"

(* C3: when the species fetch succeeds and translate fails, the request   *)
(* ends with the error mapped from the translation failure, never with a  *)
(* success response.                                                      *)
C3_NoUntranslatedFallback ==
    (FetchOk /\ funResult # None /\ funResult[1].kind = "err") =>
      /\ response # None
      /\ response[1].status # 200
      /\ response[1].body.kind = "error"
      /\ funResult[1].err = NotFound =>
           /\ response[1].status = 404
           /\ response[1].body = ErrorBody("PE_NOT_FOUND", MsgNotFound)
      /\ funResult[1].err = InternalError =>
           /\ response[1].status = 500
           /\ response[1].body = ErrorBody("PE_INTERNAL", MsgInternalError)

C3_Witness ==
    /\ FetchOk
    /\ funResult # None
    /\ funResult[1].kind = "err"
    /\ funReply # None
    /\ funReply[1].status = 200
    /\ pc = "done"

(* C4: a successful getTranslatedInfo returns the translation's           *)
(* translated text as description and the name, habitat and is_legendary  *)
(* of the species fetch.                                                  *)
C4_MergeFrame ==
    (route = "translated" /\ Succeeded) =>
      /\ response[1].body.kind = "info"
      /\ response[1].body.info.description = funReply[1].text[1].doc.translated[1]
      /\ response[1].body.info.name = Fetched.name
      /\ response[1].body.info.habitat = Fetched.habitat
      /\ response[1].body.info.is_legendary = Fetched.is_legendary

C4_Witness ==
    /\ route = "translated"
    /\ Succeeded
    /\ response[1].body.info.description # Fetched.description

SpeciesDoc == pokeReply[1].text[1].doc
GotSpeciesDoc ==
    /\ pokeReply # None
    /\ pokeReply[1].status = 200
    /\ pokeReply[1].text # None
    /\ pokeReply[1].text[1].valid

IsEn(entry) == entry.lang = Some("en")
HasEn(array) == \E i \in 1..Len(array) : IsEn(array[i])
FirstEn(array) ==
    CHOOSE i \in 1..Len(array) :
      IsEn(array[i]) /\ \A j \in 1..(i - 1) : ~IsEn(array[j])

(* a payload missing or mistyping one of the four fields *)
MalformedSpecies(doc) ==
    \/ doc.name = None
    \/ doc.flavor_text_entries = None
    \/ doc.flavor_text_entries # None /\ ~HasEn(doc.flavor_text_entries[1])
    \/ doc.habitat = None
    \/ doc.is_legendary = None

InternalErrorResponse ==
    [status |-> 500, body |-> ErrorBody("PE_INTERNAL", MsgInternalError)]

(* C5: a 200 species payload that misses or mistypes name,                *)
(* flavor_text_entries (absent, empty, not an array, no "en" entry),      *)
(* habitat.name or is_legendary makes fetch return InternalError and the  *)
(* request end as 500 PE_INTERNAL.                                        *)
C5_MalformedIsInternalError ==
    (GotSpeciesDoc /\ MalformedSpecies(SpeciesDoc)) =>
      /\ pokeResult = Some(Err(InternalError))
      /\ response = Some(InternalErrorResponse)

(* text with every newline replaced by one space *)
Folded(d, t) ==
    /\ Len(d) = Len(t)
    /\ \A k \in 1..Len(t) : d[k] = IF t[k] = LF THEN SP ELSE t[k]

(* C6: a 200 species payload with an "en" entry (carrying a flavor_text)  *)
(* and well-formed name, habitat.name and is_legendary makes fetch        *)
(* succeed with the folded flavor_text of the first "en" entry, whatever  *)
(* the other entries are.                                                 *)
C6_FirstEnglishEntry ==
    (/\ GotSpeciesDoc
     /\ SpeciesDoc.name # None
     /\ SpeciesDoc.habitat # None
     /\ SpeciesDoc.is_legendary # None
     /\ SpeciesDoc.flavor_text_entries # None
     /\ HasEn(SpeciesDoc.flavor_text_entries[1])
     /\ LET array == SpeciesDoc.flavor_text_entries[1]
        IN  array[FirstEn(array)].flavor_text # None) =>
      LET array == SpeciesDoc.flavor_text_entries[1]
      IN  /\ FetchOk
          /\ Folded(Fetched.description, array[FirstEn(array)].flavor_text[1])

HasNewline(t) == \E k \in 1..Len(t) : t[k] = LF

(* C7 as stated: no description emitted in a success response, by getInfo *)
(* or by getTranslatedInfo, contains a newline.                           *)
C7_NoNewlineEmitted ==
    Succeeded => ~HasNewline(response[1].body.info.description)

(* C7 amended: getInfo never emits a newline in the description;          *)
(* getTranslatedInfo emits one exactly when the upstream translated text  *)
(* contains one.                                                          *)
C7_NoNewlineFromSpecies ==
    /\ (route = "info" /\ Succeeded) =>
         ~HasNewline(response[1].body.info.description)
    /\ FetchOk => ~HasNewline(Fetched.description)
    /\ (route = "translated" /\ Succeeded) =>
         (HasNewline(response[1].body.info.description)
            <=> HasNewline(funReply[1].text[1].doc.translated[1]))

C7_Witness ==
    /\ route = "info"
    /\ Succeeded
    /\ LET array == SpeciesDoc.flavor_text_entries[1]
       IN  HasNewline(array[FirstEn(array)].flavor_text[1])

(* C8: a call whose upstream never responds eventually returns            *)
(* InternalError and the request completes with an error response, for    *)
(* the species client and the translation client alike.                   *)
C8_SilentUpstreamTimesOut ==
    \A c \in {"poke", "fun"} :
      [](pc = WaitOf(c) /\ net[c] = "silent"
           => <>(pc = "done" /\ response = Some(InternalErrorResponse)))

(* C9: each client error variant maps to the boundary error of the table, *)
(* and the response carries the mapped status, code and message.          *)
C9_ErrorTable ==
    errOut # None =>
      LET c == errIn[1].client
          e == errIn[1].error
          o == errOut[1]
      IN  /\ (c = "poke" /\ e = NotFound) =>
               o = [status_code |-> 404, code |-> "PE_NOT_FOUND",
                    message |-> MsgPokemonNotFound]
          /\ (c = "fun" /\ e = NotFound) =>
               o = [status_code |-> 404, code |-> "PE_NOT_FOUND",
                    message |-> MsgNotFound]
          /\ e = InternalError =>
               o = [status_code |-> 500, code |-> "PE_INTERNAL",
                    message |-> MsgInternalError]
          /\ e.variant = "BadRequest" =>
               o = [status_code |-> 400, code |-> "PE_BAD_REQUEST",
                    message |-> e.message]
          /\ response # None =>
               /\ response[1].status = o.status_code
               /\ response[1].body = ErrorBody(o.code, o.message)

C9_Witness ==
    /\ errIn # None
    /\ errIn[1].client = "fun"
    /\ errIn[1].error = NotFound
    /\ response # None

(* C10: for each client, upstream 404 gives NotFound and a 404            *)
(* PE_NOT_FOUND response; any other status but 200, and any transport     *)
(* failure, gives InternalError and a 500 PE_INTERNAL response; only 200  *)
(* can lead to success.                                                   *)
NotFoundResponse(message) ==
    [status |-> 404, body |-> ErrorBody("PE_NOT_FOUND", message)]

C10_StatusDecides ==
    /\ (pokeReply # None /\ pokeReply[1].status = 404) =>
         /\ pokeResult = Some(Err(NotFound))
         /\ response = Some(NotFoundResponse(MsgPokemonNotFound))
    /\ (pokeReply # None /\ pokeReply[1].status \notin {200, 404}) =>
         /\ pokeResult = Some(Err(InternalError))
         /\ response = Some(InternalErrorResponse)
    /\ net.poke \in {"failed", "timed_out"} =>
         /\ pokeResult = Some(Err(InternalError))
         /\ response = Some(InternalErrorResponse)
    /\ FetchOk => pokeReply # None /\ pokeReply[1].status = 200
    /\ (funReply # None /\ funReply[1].status = 404) =>
         /\ funResult = Some(Err(NotFound))
         /\ response = Some(NotFoundResponse(MsgNotFound))
    /\ (funReply # None /\ funReply[1].status \notin {200, 404}) =>
         /\ funResult = Some(Err(InternalError))
         /\ response = Some(InternalErrorResponse)
    /\ net.fun \in {"failed", "timed_out"} =>
         /\ funResult = Some(Err(InternalError))
         /\ response = Some(InternalErrorResponse)
    /\ (funResult # None /\ funResult[1].kind = "ok") =>
         funReply # None /\ funReply[1].status = 200
    /\ Succeeded =>
         /\ pokeReply[1].status = 200
         /\ route = "translated" => funReply # None /\ funReply[1].status = 200

C10_Witness ==
    /\ pokeReply # None
    /\ pokeReply[1].status = 200
    /\ funReply # None
    /\ funReply[1].status = 404
    /\ response = Some(NotFoundResponse(MsgNotFound))

TranslationDoc == funReply[1].text[1].doc
GotTranslationDoc ==
    /\ funReply # None
    /\ funReply[1].status = 200
    /\ funReply[1].text # None
    /\ funReply[1].text[1].valid

UsableTranslation(doc) ==
    /\ doc.total # None
    /\ doc.total[1] > 0
    /\ doc.translated # None
    /\ doc.text # None
    /\ doc.translation # None

(* C11: on a 200 translation response translate succeeds only if          *)
(* success.total is an integer above 0 and contents.translated, .text and *)
(* .translation are strings, and then returns Translation{dialect:        *)
(* contents.translation, original: contents.text, translated:             *)
(* contents.translated}; otherwise it fails with InternalError.           *)
C11_TranslationParse ==
    GotTranslationDoc =>
      IF UsableTranslation(TranslationDoc)
      THEN funResult = Some(Ok([dialect |-> TranslationDoc.translation[1],
                                original |-> TranslationDoc.text[1],
                                translated |-> TranslationDoc.translated[1]]))
      ELSE funResult = Some(Err(InternalError))

C11_Witness ==
    /\ GotTranslationDoc
    /\ TranslationDoc.total = Some(2)
    /\ funResult # None
    /\ funResult[1].kind = "ok"
    /\ funResult[1].val.dialect # calls[2].url[3]

C11_WitnessZero ==
    /\ GotTranslationDoc
    /\ TranslationDoc.total = Some(0)
    /\ TranslationDoc.translated # None
    /\ TranslationDoc.text # None
    /\ TranslationDoc.translation # None
    /\ funResult = Some(Err(InternalError))

====
